---------------------------- MODULE Spec2Model ----------------------------
(***************************************************************************)
(* Model of scraper.py (Essential Mix statistics scraper).                 *)
(*                                                                         *)
(* The script is Python 2 code: parse_tracks takes len() of the result of  *)
(* filter(), and parse_tracklist splits response.content as a str, so      *)
(* filter() returns a list and the fetched document is a text string.      *)
(* Python strings are TLA+ strings; a list is a sequence; None, a missing  *)
(* dictionary key and a value are told apart by a tag.                     *)
(*                                                                         *)
(* Two specifications:                                                     *)
(*   Spec     the pipeline of lines 284-287 and 380, run after run, over   *)
(*            the checkpoint file ./data.json and the export               *)
(*            ./data/data.json;                                            *)
(*   SpecNorm the body of the loop of parse_tracks on one raw track line,  *)
(*            statement by statement.                                      *)
(***************************************************************************)
EXTENDS Integers, Sequences, FiniteSets, TLC

VARIABLES
    \* ---- the pipeline (Spec)
    pc,              \* the statement of the script the run is at
    idx,             \* the index of the loop the run is in (enumerate / items)
    data,            \* the in-memory dictionary `data`, in iteration order
    file,            \* the contents of ./data.json (the checkpoint)
    out,             \* the contents of ./data/data.json (the export)
    processed_data,  \* clean_data's local list
    crashedIn,       \* the function whose uncaught exception ended the run
    fetched,         \* history: mixes get_tracklist_data was called for, this run
    failed,          \* history: mixes whose fetch raised (and was caught), this run
    split,           \* history: mixes parse_tracklist was called for, this run
    normalized,      \* history: mixes parse_tracks was called for, this run
    prev,            \* history: how the previous run ended
    \* ---- one iteration of the loop of parse_tracks (SpecNorm)
    npc,             \* the statement of the loop body
    raw_track,       \* the track line being parsed
    parts,           \* history: the pieces raw_track was put together from
    processed_track, \* the local `processed_track`
    parsed           \* the [artist, track, label] appended to parsed_tracks

pipeVars == <<pc, idx, data, file, out, processed_data, crashedIn,
              fetched, failed, split, normalized, prev>>
normVars == <<npc, raw_track, parts, processed_track, parsed>>
vars == <<pipeVars, normVars>>

(***************************************************************************)
(* BOUNDS                                                                  *)
(***************************************************************************)
\* the number of mixes in the catalogue
NumMixes == 2
\* the number of noise tokens put in front of a generated track line
MaxNoise == 2

(***************************************************************************)
(* PYTHON STRING OPERATIONS                                                *)
(***************************************************************************)
Min(S) == CHOOSE x \in S : \A y \in S : x <= y
Max(S) == CHOOSE x \in S : \A y \in S : x >= y

\* s[i-1] of Python, "" outside the string (as the slice s[i-1:i])
Char(s, i) == IF 1 <= i /\ i <= Len(s) THEN SubSeq(s, i, i) ELSE ""

\* s[i-1:] of Python
From(s, i) == IF i > Len(s) THEN "" ELSE SubSeq(s, i, Len(s))

\* the (1-based) places where p occurs in s
Occurs(s, p) == {i \in 1..(Len(s) - Len(p) + 1) : SubSeq(s, i, i + Len(p) - 1) = p}

\* p in s
Contains(s, p) == Occurs(s, p) # {}

\* s.replace(old, new): the occurrences from the left, not overlapping
RECURSIVE Replace(_, _, _)
Replace(s, old, new) ==
    IF Occurs(s, old) = {} THEN s
    ELSE LET i == Min(Occurs(s, old))
         IN  SubSeq(s, 1, i - 1) \o new \o Replace(From(s, i + Len(old)), old, new)

\* s.split(sep)
RECURSIVE Split(_, _)
Split(s, sep) ==
    IF Occurs(s, sep) = {} THEN <<s>>
    ELSE LET i == Min(Occurs(s, sep))
         IN  <<SubSeq(s, 1, i - 1)>> \o Split(From(s, i + Len(sep)), sep)

Whitespace == {" ", "\t", "\r", "\n", "\f"}

\* s.strip()
Strip(s) ==
    LET keep == {i \in 1..Len(s) : Char(s, i) \notin Whitespace}
    IN  IF keep = {} THEN "" ELSE SubSeq(s, Min(keep), Max(keep))

Digits == {"0", "1", "2", "3", "4", "5", "6", "7", "8", "9"}

\* the length of the longest run of characters of `class` that starts at s[i]
RunLen(s, i, class) ==
    LET stop == {j \in i..(Len(s) + 1) : Char(s, j) \notin class}
    IN  Min(stop) - i

\* filter(None, lines): the empty strings go, a line of blanks stays
RECURSIVE FilterNonEmpty(_)
FilterNonEmpty(lines) ==
    IF lines = <<>> THEN <<>>
    ELSE (IF Head(lines) = "" THEN <<>> ELSE <<Head(lines)>>)
         \o FilterNonEmpty(Tail(lines))

(***************************************************************************)
(* parse_tracks: the body of the loop, one statement per operator          *)
(***************************************************************************)
\* skip_track without the test for a section line (';')
skip_track_no_section(track) ==
    LET skip  == Contains(track, "<list>") \/ Contains(track, "</list>")
        empty == Strip(track) = ""
    IN  ~(skip \/ empty)

\* lines 188-194: True for a line to KEEP
skip_track(track) ==
    LET skip    == Contains(track, "<list>") \/ Contains(track, "</list>")
        section == Char(track, 1) = ";"
        empty   == Strip(track) = ""
    IN  ~(skip \/ section \/ empty)

\* lines 209-210
StripHash(t) == IF Char(t, 1) = "#" THEN Strip(From(t, 2)) ELSE t

\* line 213: re.sub('^\[[\d|\?|:]+\]', '', t).strip()
TimestampChars == Digits \cup {"|", "?", ":"}

StripTimestamp(t) ==
    LET n == RunLen(t, 2, TimestampChars)
    IN  Strip(IF Char(t, 1) = "[" /\ n >= 1 /\ Char(t, n + 2) = "]"
              THEN From(t, n + 3) ELSE t)

\* line 216: re.sub('^\d+\.', '', t).strip()
StripOrdinal(t) ==
    LET n == RunLen(t, 1, Digits)
    IN  Strip(IF n >= 1 /\ Char(t, n + 1) = "." THEN From(t, n + 2) ELSE t)

\* lines 219-221: each token is tried once, in this order, on what is left
NoiseTokens == <<"''", "* ", "+ ">>

RECURSIVE StripNoiseFrom(_, _)
StripNoiseFrom(t, k) ==
    IF k > Len(NoiseTokens) THEN t
    ELSE StripNoiseFrom(IF SubSeq(t, 1, Min({2, Len(t)})) = NoiseTokens[k]
                        THEN Strip(From(t, 3)) ELSE t, k + 1)

\* the loop with a break after the first token removed
RECURSIVE StripNoiseOnceFrom(_, _)
StripNoiseOnceFrom(t, k) ==
    IF k > Len(NoiseTokens) THEN t
    ELSE IF SubSeq(t, 1, Min({2, Len(t)})) = NoiseTokens[k]
         THEN Strip(From(t, 3)) ELSE StripNoiseOnceFrom(t, k + 1)

StripNoiseOnce(t) == StripNoiseOnceFrom(t, 1)

StripNoise(t) == StripNoiseFrom(t, 1)

\* line 226: not re.sub('\?+', '', t).strip() == ''
Identified(t) == Strip(Replace(t, "?", "")) # ""

\* line 227-228: LABEL_REGEX.search(t), '(\[.+\]$)': the leftmost '[' that has
\* at least one character between it and a ']' that ends the string
LabelMatch(t) ==
    LET opens == {i \in 1..(Len(t) - 2) : Char(t, i) = "["}
    IN  IF t # "" /\ Char(t, Len(t)) = "]" /\ opens # {}
        THEN From(t, Min(opens)) ELSE ""

\* lines 237-239
RECURSIVE CutFeat(_, _)
CutFeat(artist, feats) ==
    IF feats = <<>> THEN artist
    ELSE CutFeat(IF Contains(artist, Head(feats))
                 THEN Split(artist, Head(feats))[1] ELSE artist, Tail(feats))

\* lines 223-243: the [artist, track, label] of a stripped line
ParseFields(t) ==
    IF ~Identified(t) THEN <<"unknown", "unknown", "unknown">>
    ELSE LET m        == LabelMatch(t)
             rest     == IF m # "" THEN Strip(Replace(t, m, "")) ELSE t
             label    == IF m # "" THEN Strip(Replace(Replace(m, "[", ""), "]", ""))
                         ELSE ""
             segments == Split(rest, " - ")
         IN  IF Len(segments) > 1
             THEN <<CutFeat(Strip(segments[1]), <<" Feat.", " Featuring">>),
                    Strip(segments[2]), label>>
             ELSE <<"unknown", "unknown", label>>

\* lines 206-243: one pass of the loop body
NormalizeTrack(raw) ==
    ParseFields(StripNoise(StripOrdinal(StripTimestamp(StripHash(raw)))))

\* lines 201-256: parsed_tracks, built line by line over the kept lines
RECURSIVE parse_tracks_loop(_, _)
parse_tracks_loop(tracks, parsed_tracks) ==
    IF tracks = <<>> THEN parsed_tracks
    ELSE parse_tracks_loop(Tail(tracks),
            IF skip_track(Head(tracks))
            THEN Append(parsed_tracks, NormalizeTrack(Head(tracks)))
            ELSE parsed_tracks)

(***************************************************************************)
(* PYTHON VALUES                                                           *)
(* A dictionary entry that holds a string or a list: the key is missing    *)
(* ("absent"), holds None ("none") or holds a value ("val").  The field v  *)
(* of a missing or None entry is a filler of the value's type.             *)
(***************************************************************************)
StrAbsent   == [k |-> "absent", v |-> ""]
StrNone     == [k |-> "none", v |-> ""]
StrVal(s)   == [k |-> "val", v |-> s]
ListAbsent  == [k |-> "absent", v |-> <<>>]
ListNone    == [k |-> "none", v |-> <<>>]
ListVal(l)  == [k |-> "val", v |-> l]

\* the value of 'duplicate': False, True or a string
DupAbsent   == [k |-> "absent", b |-> FALSE, s |-> ""]
DupBool(b)  == [k |-> "bool", b |-> b, s |-> ""]
DupStr(s)   == [k |-> "str", b |-> FALSE, s |-> s]

\* bool(d) of Python, as `not value['duplicate']` takes it
Truthy(d) == IF d.k = "bool" THEN d.b ELSE d.s # ""

\* d != False of Python: a string, even the empty one, is not False
NotFalse(d) == ~(d.k = "bool" /\ d.b = FALSE)

(***************************************************************************)
(* parse_tracklist                                                         *)
(***************************************************************************)
\* lines 150-174.  raised: the call ended in an exception (IndexError at
\* lines[1], TypeError at `for category in categories` over None)
parse_tracklist(text) ==
    LET lines     == Split(text, "\n")
        is_dup    == Contains(lines[1], "Fake") \/ Contains(lines[1], "Repeat")
        cat_lines == {i \in 1..Len(lines) : Contains(lines[i], "[[Category:")}
        \* category_index, 1-based; len(lines) of Python is Len(lines) + 1 here
        category_index == IF cat_lines = {} THEN Len(lines) + 1 ELSE Min(cat_lines)
        headers   == {i \in 1..Len(lines) : lines[i] = "== Tracklist =="}
        header    == Min(headers)
        between   == IF header + 1 <= category_index - 1
                     THEN SubSeq(lines, header + 1, category_index - 1) ELSE <<>>
        tail      == IF category_index <= Len(lines)
                     THEN SubSeq(lines, category_index, Len(lines)) ELSE <<>>
        kept      == FilterNonEmpty(tail)
        categories == [i \in 1..Len(kept) |->
                         Strip(Replace(Replace(kept[i], "[[Category:", ""), "]]", ""))]
        repeated  == \E i \in 1..Len(categories) : Contains(categories[i], "{{Repeated|")
    IN  IF is_dup
        THEN IF Len(lines) < 2
             THEN [raised |-> TRUE, tracklist |-> ListNone, categories |-> ListNone,
                   duplicate |-> DupBool(FALSE)]
             ELSE [raised |-> FALSE, tracklist |-> ListNone, categories |-> ListNone,
                   duplicate |-> DupStr(Replace(lines[2], " |Original  =", ""))]
        ELSE IF headers = {}
             THEN [raised |-> TRUE, tracklist |-> ListNone, categories |-> ListNone,
                   duplicate |-> DupBool(FALSE)]
             ELSE [raised |-> FALSE,
                   tracklist |-> ListVal(FilterNonEmpty(between)),
                   categories |-> ListVal(categories),
                   duplicate |-> DupBool(repeated)]

(***************************************************************************)
(* has_data, parse_tracks                                                  *)
(***************************************************************************)
\* lines 177-185, by the truth value of what it returns
has_data(mix_data) ==
    LET tracks     == mix_data.tracks.k = "val" /\ Len(mix_data.tracks.v) > 0
        categories == mix_data.categories.k = "val" /\ Len(mix_data.categories.v) > 0
        duplicate  == mix_data.duplicate.k # "absent" /\ NotFalse(mix_data.duplicate)
    IN  (tracks /\ categories) \/ duplicate

\* lines 197-256; mix_data.get('tracks', []) is [] for a missing key, and
\* filter(skip_track, None) raises TypeError
parse_tracks(mix_data) ==
    IF mix_data.tracks.k = "none"
    THEN [raised |-> TRUE, parsed_tracks |-> <<>>]
    ELSE [raised |-> FALSE, parsed_tracks |-> parse_tracks_loop(mix_data.tracks.v, <<>>)]

(***************************************************************************)
(* clean_data                                                              *)
(***************************************************************************)
\* lines 319-336
artist_categories ==
    {"Pete Tong", "Carl Cox", "Various", "John Digweed", "Danny Rampling",
     "Annie Mac", "Chemical Brothers", "Judge Jules", "Sasha", "Fergie",
     "Dave Pearce", "Fatboy Slim", "Paul Oakenfold", "Seb Fontaine",
     "Eddie Halliwell", "Eric Prydz"}

\* lines 298-316
venue_categories ==
    {"Cream", "Privilege (Ibiza)", "Unknown Gig / Location", "Space (Ibiza)",
     "Que Club", "Ministry Of Sound", "Glastonbury Festival", "One Big Weekend",
     "Creamfields", "Gatecrasher", "Homelands", "Surfcomber Hotel", "WMC",
     "The Warehouse Project", "Amnesia (Ibiza)", "Pacha (Ibiza)", "Sankeys (Ibiza)"}

\* a run of n digits at s[i]
DigitsAt(s, i, n) == \A j \in i..(i + n - 1) : Char(s, j) \in Digits

\* lines 291-294, regex.match: the pattern at the start of the category
UnnecessaryMatches(category) ==
    <<  /\ SubSeq(category, 1, Min({14, Len(category)})) = "Essential Mix|"
        /\ DigitsAt(category, 15, 4) /\ Char(category, 19) = "-"
        /\ DigitsAt(category, 20, 2) /\ Char(category, 22) = "-"
        /\ DigitsAt(category, 23, 2),
        /\ SubSeq(category, 1, Min({6, Len(category)})) = "Ibiza "
        /\ DigitsAt(category, 7, 4) >>

\* lines 357-358
remove_categories(value) ==
    {"Essential Mix"} \cup {value.artists[i] : i \in 1..Len(value.artists)}
        \cup artist_categories \cup venue_categories
        \cup {SubSeq(value.date, 1, Min({4, Len(value.date)}))}

\* list.remove(x): the first x goes; ValueError when there is none
ListRemove(l, x) ==
    LET at == {i \in 1..Len(l) : l[i] = x}
    IN  IF at = {} THEN [raised |-> TRUE, list |-> l]
        ELSE [raised |-> FALSE,
              list |-> SubSeq(l, 1, Min(at) - 1) \o SubSeq(l, Min(at) + 1, Len(l))]

\* the removals lines 363-367 make for one category, in their order
Removals(category, remove) ==
    (IF Strip(category) \in remove THEN <<category>> ELSE <<>>)
    \o (IF UnnecessaryMatches(category)[1] THEN <<category>> ELSE <<>>)
    \o (IF UnnecessaryMatches(category)[2] THEN <<category>> ELSE <<>>)

RECURSIVE RemoveAll(_, _)
RemoveAll(categories, xs) ==
    IF xs = <<>> THEN [raised |-> FALSE, list |-> categories]
    ELSE LET r == ListRemove(categories, Head(xs))
         IN  IF r.raised THEN r ELSE RemoveAll(r.list, Tail(xs))

\* lines 360-367: the loop over value['categories'], removing from the copy
RECURSIVE CleanCategories(_, _, _)
CleanCategories(original, categories, remove) ==
    IF original = <<>> THEN [raised |-> FALSE, list |-> categories]
    ELSE LET r == RemoveAll(categories, Removals(Head(original), remove))
         IN  IF r.raised THEN r ELSE CleanCategories(Tail(original), r.list, remove)

\* lines 289, 350-354: LENGTH_REGEX.search, 'StandardShow(.*?)\}': the first
\* 'StandardShow' that has a '}' after it on its line, up to the nearest '}'
LengthOf(text) ==
    LET closes(i) == {j \in (i + 12)..Len(text) :
                        /\ Char(text, j) = "}"
                        /\ \A h \in (i + 12)..(j - 1) : Char(text, h) # "\n"}
        starts    == {i \in Occurs(text, "StandardShow") : closes(i) # {}}
    IN  IF starts = {} THEN "?"
        ELSE IF Min(closes(Min(starts))) = Min(starts) + 12 THEN ""
        ELSE SubSeq(text, Min(starts) + 12, Min(closes(Min(starts))) - 1)

\* lines 348-376 for one non-duplicate value: the record appended to
\* processed_data, or the exception of categories.remove
CleanValue(value) ==
    LET c == CleanCategories(value.categories.v, value.categories.v,
                             remove_categories(value))
    IN  [raised |-> c.raised,
         value  |-> [date |-> value.date, artists |-> value.artists,
                     duplicate |-> value.duplicate,
                     length |-> LengthOf(value.tracklist.v),
                     categories |-> c.list,
                     tracklist |-> value.processed_tracks.v,
                     url |-> value.key]]

(***************************************************************************)
(* THE PIPELINE                                                            *)
(***************************************************************************)
Mixes == 1..NumMixes

\* what the crawl of get_tracklist_links finds (parse_mix_link's results)
Identities ==
    << [date |-> "1999-08-01", artists |-> <<"Pete Tong">>, venue |-> ""],
       [date |-> "", artists |-> <<"Sasha", "Ibiza 1999">>, venue |-> "Amnesia"] >>

Catalogue ==
    [i \in Mixes |->
        LET id == Identities[((i - 1) % Len(Identities)) + 1]
        IN  [key |-> "/w/mix" \o ToString(i), date |-> id.date,
             artists |-> id.artists, venue |-> id.venue,
             tracklist |-> StrAbsent, categories |-> ListAbsent,
             tracks |-> ListAbsent, duplicate |-> DupAbsent,
             processed_tracks |-> ListAbsent]]

\* the raw documents the site may answer with
DocFull ==
    "{{StandardShow|2h}}\n== Tracklist ==\n# [0:00] Artist - Track [Label]\n;Part 2\n \n<list>\n''* A - B\n\n[[Category:Essential Mix]]\n[[Category:House]]\n[[Category:Pete Tong]]\n[[Category:Essential Mix|1999-08-01]]\n[[Category:House]]"
DocFake      == "{{Fake}}\n |Original  = /w/SomeOtherMix"
DocFakeEmpty == "{{Repeat}}\n |Original  ="
DocFakeShort == "{{Fake}}"
DocNoHeader  == "Intro\n[[Category:House]]"
DocRepeated  == "== Tracklist ==\n# A - B\n[[Category:House]]\n{{Repeated|1999-01-01}}"
DocNoTracks  == "== Tracklist ==\n[[Category:House]]"
DocIbiza     == "== Tracklist ==\n1. A - B\n[[Category:Ibiza 1999]]\n[[Category:Techno]]"

Documents == {DocFull, DocFake, DocFakeEmpty, DocFakeShort, DocNoHeader,
              DocRepeated, DocNoTracks, DocIbiza}

\* what session.get does: it answers with a document, or it raises
Responses == [raises : {FALSE}, content : Documents]
             \cup {[raises |-> TRUE, content |-> ""]}

\* lines 116-130: response.content, or None after the exception is caught
\* and printed (the function then ends without a return)
get_tracklist_data(response) ==
    IF response.raises THEN StrNone ELSE StrVal(response.content)

\* a fetch stage that does not look at the checkpoint
NeedsFetchAlways(mix_data) == TRUE

\* line 138: 'tracklist' not in mix_data
NeedsFetch(mix_data) == mix_data.tracklist.k = "absent"

NoFile == <<>>
NoPrev == [exists |-> FALSE, complete |-> FALSE, out |-> <<>>, file |-> <<>>,
           failed |-> {}]

IdleNorm ==
    /\ npc = "idle" /\ raw_track = "" /\ parts = <<>> /\ processed_track = ""
    /\ parsed = <<>>

Init ==
    /\ IdleNorm
    /\ pc = "get_tracklist_links"
    /\ idx = 0
    /\ data = <<>>
    /\ file = NoFile
    /\ out = NoFile
    /\ processed_data = <<>>
    /\ crashedIn = ""
    /\ fetched = {} /\ failed = {} /\ split = {} /\ normalized = {}
    /\ prev = NoPrev

\* lines 74-113, line 285
GetTracklistLinks ==
    /\ pc = "get_tracklist_links"
    /\ data' = (IF file # NoFile THEN file ELSE Catalogue)
    /\ file' = (IF file # NoFile THEN file ELSE Catalogue)
    /\ pc' = "get_tracklists"
    /\ idx' = 1
    /\ UNCHANGED <<out, processed_data, crashedIn, fetched, failed, split,
                   normalized, prev, normVars>>

\* lines 133-147, line 286: one pass of the loop; the last one saves and returns
GetTracklists ==
    /\ pc = "get_tracklists"
    /\ IF NeedsFetch(data[idx])
       THEN \E response \in Responses :
              /\ data' = [data EXCEPT ![idx].tracklist = get_tracklist_data(response)]
              /\ fetched' = fetched \cup {idx}
              /\ failed' = (IF response.raises THEN failed \cup {idx} ELSE failed)
       ELSE UNCHANGED <<data, fetched, failed>>
    /\ IF idx = NumMixes
       THEN /\ file' = data'
            /\ pc' = "parse_tracklists"
            /\ idx' = 1
       ELSE /\ idx' = idx + 1
            /\ UNCHANGED <<file, pc>>
    /\ UNCHANGED <<out, processed_data, crashedIn, split, normalized, prev, normVars>>

\* lines 259-281, line 287: one pass of the loop; the last one saves and returns
ParseTracklists ==
    /\ pc = "parse_tracklists"
    /\ LET mix_data == data[idx]
           needs    == ~has_data(mix_data)
           \* mix_data['tracklist'] raises KeyError, None.split AttributeError
           has_text == mix_data.tracklist.k = "val"
           r        == parse_tracklist(mix_data.tracklist.v)
           filled   == IF needs
                       THEN [mix_data EXCEPT !.categories = r.categories,
                                             !.tracks = r.tracklist,
                                             !.duplicate = r.duplicate]
                       ELSE mix_data
           split_raised == needs /\ (~has_text \/ r.raised)
           \* mix_data['duplicate'] raises KeyError for a missing key
           dup_raised   == filled.duplicate.k = "absent"
           to_tracks    == ~Truthy(filled.duplicate)
           t            == parse_tracks(filled)
       IN  /\ split' = (IF needs /\ has_text THEN split \cup {idx} ELSE split)
           /\ normalized' = (IF ~split_raised /\ ~dup_raised /\ to_tracks
                             THEN normalized \cup {idx} ELSE normalized)
           /\ IF split_raised \/ dup_raised \/ (to_tracks /\ t.raised)
              THEN /\ pc' = "crashed"
                   /\ crashedIn' = "parse_tracklists"
                   /\ UNCHANGED <<data, file, idx>>
              ELSE /\ data' = [data EXCEPT ![idx] =
                                 IF to_tracks
                                 THEN [filled EXCEPT !.processed_tracks = ListVal(t.parsed_tracks)]
                                 ELSE filled]
                   /\ IF idx = NumMixes
                      THEN /\ file' = data'
                           /\ pc' = "clean_data"
                           /\ idx' = 1
                      ELSE /\ idx' = idx + 1
                           /\ UNCHANGED <<file, pc>>
                   /\ UNCHANGED crashedIn
    /\ UNCHANGED <<out, processed_data, fetched, failed, prev, normVars>>

\* lines 342-378, line 380: one pass of the loop; the last one writes the export.
\* The value is changed in place: data holds the record that was appended.
CleanData ==
    /\ pc = "clean_data"
    /\ LET value == data[idx]
           emit  == ~Truthy(value.duplicate)
           c     == CleanValue(value)
       IN  IF emit /\ c.raised
           THEN /\ pc' = "crashed"
                /\ crashedIn' = "clean_data"
                /\ UNCHANGED <<data, out, processed_data, idx>>
           ELSE /\ data' = (IF emit THEN [data EXCEPT ![idx] = c.value] ELSE data)
                /\ processed_data' = (IF emit THEN Append(processed_data, c.value)
                                      ELSE processed_data)
                /\ IF idx = NumMixes
                   THEN /\ out' = processed_data'
                        /\ pc' = "done"
                        /\ idx' = 0
                   ELSE /\ idx' = idx + 1
                        /\ UNCHANGED <<out, pc>>
                /\ UNCHANGED crashedIn
    /\ UNCHANGED <<file, fetched, failed, split, normalized, prev, normVars>>

\* the script is run again: the process is new, the two files are what is left
Rerun ==
    /\ pc \in {"done", "crashed"}
    /\ prev' = [exists |-> TRUE, complete |-> pc = "done", out |-> out,
                file |-> file, failed |-> failed]
    /\ pc' = "get_tracklist_links"
    /\ idx' = 0
    /\ data' = <<>>
    /\ processed_data' = <<>>
    /\ crashedIn' = ""
    /\ fetched' = {} /\ failed' = {} /\ split' = {} /\ normalized' = {}
    /\ UNCHANGED <<file, out, normVars>>

Next == GetTracklistLinks \/ GetTracklists \/ ParseTracklists \/ CleanData \/ Rerun

Spec == Init /\ [][Next]_vars

(***************************************************************************)
(* SpecNorm: the loop body on one generated track line                     *)
(***************************************************************************)
HashParts  == {"", "#"}
StampParts == {"", "[12:34] "}
OrdParts   == {"", "1. "}
BodyParts  == {"Artist - Track", "Artist Name - Track Title",
               "A Feat. B - T - X", "A [x] - B", "Artist", "???"}
LabelParts == {"", " [Label Records]"}

NoiseSeqs == UNION {[1..n -> {NoiseTokens[k] : k \in 1..Len(NoiseTokens)}] : n \in 0..MaxNoise}

RECURSIVE Concat(_)
Concat(ss) == IF ss = <<>> THEN "" ELSE Head(ss) \o Concat(Tail(ss))

IdlePipe ==
    /\ pc = "idle" /\ idx = 0 /\ data = <<>> /\ file = <<>> /\ out = <<>>
    /\ processed_data = <<>> /\ crashedIn = "" /\ fetched = {} /\ failed = {}
    /\ split = {} /\ normalized = {} /\ prev = <<>>

InitNorm ==
    /\ IdlePipe
    /\ parts \in [hash : HashParts, stamp : StampParts, ord : OrdParts,
                  noise : NoiseSeqs, body : BodyParts, label : LabelParts]
    /\ raw_track = parts.hash \o parts.stamp \o parts.ord \o Concat(parts.noise)
                   \o parts.body \o parts.label
    /\ processed_track = raw_track
    /\ npc = "hash"
    /\ parsed = <<>>

NormHash ==
    /\ npc = "hash"
    /\ npc' = "timestamp"
    /\ processed_track' = StripHash(processed_track)
    /\ UNCHANGED <<pipeVars, raw_track, parts, parsed>>

NormTimestamp ==
    /\ npc = "timestamp"
    /\ npc' = "ordinal"
    /\ processed_track' = StripTimestamp(processed_track)
    /\ UNCHANGED <<pipeVars, raw_track, parts, parsed>>

NormOrdinal ==
    /\ npc = "ordinal"
    /\ npc' = "noise"
    /\ processed_track' = StripOrdinal(processed_track)
    /\ UNCHANGED <<pipeVars, raw_track, parts, parsed>>

NormNoise ==
    /\ npc = "noise"
    /\ npc' = "fields"
    /\ processed_track' = StripNoise(processed_track)
    /\ UNCHANGED <<pipeVars, raw_track, parts, parsed>>


NormFields ==
    /\ npc = "fields"
    /\ npc' = "done"
    /\ parsed' = ParseFields(processed_track)
    /\ UNCHANGED <<pipeVars, raw_track, parts, processed_track>>

NextNorm == NormHash \/ NormTimestamp \/ NormOrdinal \/ NormNoise \/ NormFields

SpecNorm == InitNorm /\ [][NextNorm]_vars

(***************************************************************************)
(* PROPERTIES OF THE PIPELINE (Spec)                                       *)
(***************************************************************************)
AfterFetchStage == pc \in {"parse_tracklists", "clean_data", "done", "crashed"}

FirstLine(text) == Split(text, "\n")[1]

PointerDocument(text) ==
    Contains(FirstLine(text), "Fake") \/ Contains(FirstLine(text), "Repeat")

\* the mixes whose raw document is in the checkpoint
WithDocument == {m \in Mixes : file # NoFile /\ file[m].tracklist.k = "val"}

\* C1: a mix whose fetch failed in a run has no 'tracklist' field in the
\* checkpoint that run leaves, and the fetch stage of the next run fetches it
\* again; a mix whose 'tracklist' was populated by a successful fetch is not
\* fetched in a later run.
C1_FetchRetried ==
    \A m \in Mixes :
        /\ (AfterFetchStage /\ m \in failed) => file[m].tracklist.k = "absent"
        /\ (AfterFetchStage /\ prev.exists /\ m \in prev.failed) => m \in fetched
        /\ (prev.exists /\ prev.file # NoFile /\ prev.file[m].tracklist.k = "val")
               => m \notin fetched

\* C2: the parse stage is never ended by one mix's document: it is not
\* parse_tracklists that ends a run with an uncaught exception, whatever the
\* documents and fetch results of the mixes are.
C2_ParseStageCompletes == crashedIn # "parse_tracklists"

\* C3: for a mix whose document the splitter classifies as a duplicate (first
\* line with 'Fake' or 'Repeat', whatever the second line is, or a category
\* line with '{{Repeated|'), the export holds no record, the parse stage does
\* not call parse_tracks on it, and has_data's test (duplicate != False) and
\* the guard of the export and of the normalizer (not duplicate) agree.
C3_DuplicatesExcluded ==
    \A m \in WithDocument :
        LET text == file[m].tracklist.v
            r    == parse_tracklist(text)
        IN  (PointerDocument(text) \/ (~r.raised /\ r.duplicate = DupBool(TRUE)))
            => /\ m \notin normalized
               /\ \A j \in 1..Len(out) : out[j].url # file[m].key
               /\ ~r.raised => (NotFalse(r.duplicate) <=> Truthy(r.duplicate))

\* the skip filter as the claim words it
PassesSkipFilter(line) ==
    /\ ~Contains(line, "<list>")
    /\ ~Contains(line, "</list>")
    /\ Char(line, 1) # ";"
    /\ Strip(line) # ""

\* the mixes the checkpoint holds parsed tracks for
WithParsedTracks ==
    {m \in Mixes : /\ file # NoFile
                   /\ file[m].processed_tracks.k = "val"
                   /\ file[m].tracks.k = "val"}

\* C4: for every mix parse_tracks returned for, the number of parsed entries
\* is the number of raw track lines that pass the skip filter, the i-th entry
\* is the normalization of the i-th such line, and the record the export
\* holds for the mix carries exactly these entries.
C4_TrackCount ==
    \A m \in WithParsedTracks :
        LET kept   == SelectSeq(file[m].tracks.v, PassesSkipFilter)
            tracks == file[m].processed_tracks.v
        IN  /\ Len(tracks) = Len(kept)
            /\ \A i \in 1..Len(kept) : tracks[i] = NormalizeTrack(kept[i])
            /\ pc = "done" =>
                 \A j \in 1..Len(out) :
                    out[j].url = file[m].key => Len(out[j].tracklist) = Len(kept)

\* a checkpoint with a mix of several raw lines, some of them filtered out
C4_Witness ==
    \E m \in WithParsedTracks :
        /\ Len(file[m].processed_tracks.v) >= 2
        /\ Len(file[m].tracks.v) > Len(file[m].processed_tracks.v)
        /\ pc = "done"
        /\ \E j \in 1..Len(out) : out[j].url = file[m].key

\* C5: a complete run that starts from the checkpoint of a complete run
\* fetches nothing, splits no mix that has data in that checkpoint, writes
\* the export the first run wrote and leaves the checkpoint as it found it.
C5_Idempotent ==
    (pc = "done" /\ prev.exists /\ prev.complete) =>
        /\ fetched = {}
        /\ \A m \in split : ~has_data(prev.file[m])
        /\ out = prev.out
        /\ file = prev.file

\* the end of a second complete run over mixes with data and an export
C5_Witness ==
    /\ pc = "done" /\ prev.exists /\ prev.complete
    /\ \E m \in Mixes : has_data(prev.file[m])
    /\ Len(out) >= 1

\* C6: for a document whose first line contains 'Fake' or 'Repeat',
\* parse_tracklist returns no tracklist, no categories and the second line
\* without ' |Original  =' as the duplicate marker; the second line
\* ' |Original  = /w/SomeOtherMix' gives the marker '/w/SomeOtherMix'.
C6_DuplicatePointer ==
    \A m \in WithDocument :
        LET text  == file[m].tracklist.v
            lines == Split(text, "\n")
            r     == parse_tracklist(text)
        IN  PointerDocument(text) =>
               /\ ~r.raised
               /\ r.tracklist = ListNone
               /\ r.categories = ListNone
               /\ r.duplicate = DupStr(Replace(lines[2], " |Original  =", ""))
               /\ lines[2] = " |Original  = /w/SomeOtherMix"
                     => r.duplicate = DupStr("/w/SomeOtherMix")

\* C7: for a document whose first line contains neither 'Fake' nor 'Repeat'
\* and that has no line '== Tracklist ==', parse_tracklist returns, with no
\* tracklist, no categories and the duplicate marker False.
C7_MissingHeader ==
    \A m \in WithDocument :
        LET text  == file[m].tracklist.v
            lines == Split(text, "\n")
            r     == parse_tracklist(text)
        IN  (~PointerDocument(text) /\ \A i \in 1..Len(lines) : lines[i] # "== Tracklist ==")
            => /\ ~r.raised
               /\ r.tracklist = ListNone
               /\ r.categories = ListNone
               /\ r.duplicate = DupBool(FALSE)

\* the categories the Category Cleaner is to leave, as the claim words it
ExpectedCategories(value) ==
    LET Stays(category) ==
            /\ Strip(category) \notin remove_categories(value)
            /\ ~UnnecessaryMatches(category)[1]
            /\ ~UnnecessaryMatches(category)[2]
    IN  SelectSeq(value.categories.v, Stays)

\* C8: clean_data completes for every working set, and the categories of
\* every emitted record are the mix's categories, in order and multiplicity,
\* without those in the removal set and those that match a pattern.
C8_CategoriesCleaned ==
    /\ crashedIn # "clean_data"
    /\ pc = "done" =>
         \A j \in 1..Len(out) : \A m \in Mixes :
            out[j].url = file[m].key
               => out[j].categories = ExpectedCategories(file[m])

(***************************************************************************)
(* PROPERTIES OF THE TRACK NORMALIZER (SpecNorm)                           *)
(***************************************************************************)
\* the text of the generated line that follows its prefixes
Payload == parts.body \o parts.label

\* the claim's label rule: the bracketed group that ends the text
TrailingGroup(t) ==
    LET opens == {i \in 1..Len(t) : Char(t, i) = "["}
    IN  IF t # "" /\ Char(t, Len(t)) = "]" /\ opens # {}
        THEN From(t, Max(opens)) ELSE ""

ClaimedFields(t) ==
    LET group    == TrailingGroup(t)
        label    == IF group = "" THEN ""
                    ELSE Strip(SubSeq(group, 2, Len(group) - 1))
        rest     == IF group = "" THEN t
                    ELSE Strip(SubSeq(t, 1, Len(t) - Len(group)))
        segments == Split(rest, " - ")
    IN  IF Len(segments) >= 2
        THEN <<CutFeat(Strip(segments[1]), <<" Feat.", " Featuring">>),
               Strip(segments[2]), label>>
        ELSE <<"unknown", "unknown", label>>

\* C9: for a line that is not all question marks after the prefixes are
\* stripped, label is the content of the bracketed group that ends the text
\* (only that group is removed), or '' without one; artist and title are
\* segments 0 and 1 of the rest split on ' - ', or 'unknown' with the label
\* kept; a line of question marks gives unknown, unknown, unknown.
C9_LabelAndSegments ==
    npc = "done" =>
        /\ Identified(processed_track) => parsed = ClaimedFields(processed_track)
        /\ ~Identified(processed_track) => parsed = <<"unknown", "unknown", "unknown">>
        /\ raw_track = "[12:34] Artist - Track [Label Records]"
              => parsed = <<"Artist", "Track", "Label Records">>
        /\ raw_track = "Artist Name - Track Title"
              => parsed = <<"Artist Name", "Track Title", "">>
        /\ raw_track = "???" => parsed = <<"unknown", "unknown", "unknown">>

AfterNoiseStep == npc \in {"fields", "done"}

\* C10 as claimed: at most one leading noise token is removed, so a line that
\* begins with two noise tokens keeps the second one.
C10_AtMostOneToken ==
    (AfterNoiseStep /\ Len(parts.noise) >= 2)
        => processed_track = Concat(Tail(parts.noise)) \o Payload

\* the noise tokens left in front when each token of the list is tried once,
\* in the order of the list, against the token then in front
RECURSIVE NoiseLeft(_, _)
NoiseLeft(noise, k) ==
    IF k > Len(NoiseTokens) THEN noise
    ELSE NoiseLeft(IF noise # <<>> /\ Head(noise) = NoiseTokens[k]
                   THEN Tail(noise) ELSE noise, k + 1)

\* C10 as amended: each of the tokens "''", '* ', '+ ' is tried once, in this
\* order, and removed when it is in front: up to three tokens go when they
\* come in that order, and a second token stays only when it is out of order.
C10_EachTokenOnceInOrder ==
    AfterNoiseStep => processed_track = Concat(NoiseLeft(parts.noise, 1)) \o Payload

\* "''* Artist - Track" has lost both of its tokens
C10_Witness ==
    /\ npc = "done"
    /\ parts.noise = <<"''", "* ">>
    /\ Payload = "Artist - Track"
    /\ processed_track = "Artist - Track"
    /\ parsed = <<"Artist", "Track", "">>

=============================================================================
